---- MODULE Spec2Model ----
(***************************************************************************)
(* Model of aqi_gradio.py: AQIAnalyzer (_format_url, fetch_aqi_data),      *)
(* HealthRecommendationAgent (_create_prompt, get_recommendation) and the  *)
(* orchestration function analyze_conditions.                              *)
(*                                                                         *)
(* A Python str is a sequence of tokens: user-typed text is a sequence of  *)
(* one-character strings, a literal of the source is one token.  "" is <<>>*)
(* A Python dict is a function whose DOMAIN is its key set.  A float is    *)
(* modelled by an integral value.                                          *)
(***************************************************************************)
EXTENDS Integers, Sequences, FiniteSets, TLC

VARIABLES pc, city, state, country, medical_condition, planned_activity,
          url, outcome, aqi_data, info_msg, aqi_json, recArg, exc, result,
          fetchCalls, extractCalls, llmCalls, llm, prompt

vars == <<pc, city, state, country, medical_condition, planned_activity,
          url, outcome, aqi_data, info_msg, aqi_json, recArg, exc, result,
          fetchCalls, extractCalls, llmCalls, llm, prompt>>

-----------------------------------------------------------------------------
(* Bounds *)

MaxLen == 2

MaxVal == 1

Chars == {"B", " "}

Vals == 0..MaxVal

RECURSIVE StrUpTo(_)
StrUpTo(n) ==
    IF n = 0 THEN {<<>>}
    ELSE LET S == StrUpTo(n - 1)
         IN S \cup {Append(s, c) : s \in {t \in S : Len(t) = n - 1}, c \in Chars}

Str == StrUpTo(MaxLen)

MedicalTexts == {<<>>, <<"x">>}

ActivityTexts == {<<"j">>, <<"y">>}

-----------------------------------------------------------------------------
(* str.lower() and str.replace(" ", "-"), character by character *)

LowerChar(c) == IF c = "B" THEN "b" ELSE c

lower(s) == [i \in 1..Len(s) |-> LowerChar(s[i])]

replace(s, old, new) == [i \in 1..Len(s) |-> IF s[i] = old THEN new ELSE s[i]]

\* truthiness of a str: non-empty
Truthy(s) == Len(s) > 0

RECURSIVE Concat(_)
Concat(ss) == IF Len(ss) = 0 THEN <<>> ELSE Head(ss) \o Concat(Tail(ss))

Base == <<"https://www.aqi.in/dashboard">>

_format_url(co, st, ci) ==
    LET country_clean == replace(lower(co), " ", "-")
        city_clean    == replace(lower(ci), " ", "-")
    IN IF (~Truthy(st)) \/ Truthy(replace(lower(st), " ", "-"))
       THEN Concat(<<Base, <<"/">>, country_clean, <<"/">>, city_clean>>)
       ELSE LET state_clean == replace(lower(st), " ", "-")
            IN Concat(<<Base, <<"/">>, country_clean, <<"/">>, state_clean,
                        <<"/">>, city_clean>>)

-----------------------------------------------------------------------------
(* Exceptions *)

NoExc == [type |-> "None", msg |-> <<>>]

KeyError(k) == [type |-> "KeyError", msg |-> <<"'", k, "'">>]

\* dict[k] for each k of ks in evaluation order: the first absent key raises
RECURSIVE Lookup(_, _)
Lookup(d, ks) ==
    IF Len(ks) = 0 THEN NoExc
    ELSE IF Head(ks) \notin DOMAIN d THEN KeyError(Head(ks))
    ELSE Lookup(d, Tail(ks))

\* str(number)
Fmt(v) == <<ToString(v)>>

-----------------------------------------------------------------------------
(* The extraction backend: what firecrawl.extract may do *)

ReadingKeys == {"aqi", "temperature", "humidity", "wind_speed", "pm25", "pm10", "co"}

EnvelopeFields == {"success", "data", "status", "expiresAt"}

Restrict(f, D) == [k \in D |-> f[k]]

Distinct ==
    [aqi |-> 0, temperature |-> 1, humidity |-> 0, wind_speed |-> 1,
     pm25 |-> 1, pm10 |-> 0, co |-> 0]

FullReadings == {[k \in ReadingKeys |-> v] : v \in Vals} \cup {Distinct}

\* data: Dict[str, float] accepts any key set
DataSet ==
    FullReadings
    \cup {Restrict(Distinct, ReadingKeys \ {k}) : k \in {"aqi", "wind_speed", "co"}}
    \cup {Restrict(Distinct, {})}

Envelopes ==
    {[success |-> s, data |-> d, status |-> st, expiresAt |-> <<"t">>] :
        s \in BOOLEAN, d \in DataSet, st \in {<<"completed">>, <<"failed">>}}

Malformed ==
    {Restrict([success |-> TRUE, data |-> Distinct, status |-> <<"completed">>,
               expiresAt |-> <<"t">>], EnvelopeFields \ {f}) :
        f \in {"data", "expiresAt"}}

NoResp == Restrict(Distinct, {})

Outcomes ==
    {[kind |-> "raise", exc |-> [type |-> "ConnectionError", msg |-> <<"unreachable">>],
      resp |-> NoResp]}
    \cup {[kind |-> "return", exc |-> NoExc, resp |-> r] : r \in Envelopes \cup Malformed}

NoOutcome == [kind |-> "none", exc |-> NoExc, resp |-> NoResp]

-----------------------------------------------------------------------------
(* AQIAnalyzer.fetch_aqi_data *)

\* AQIResponse(**resp): every field of the model is required
Validates(resp) == EnvelopeFields \subseteq DOMAIN resp

ValidationError == [type |-> "ValidationError", msg |-> <<"validation error for AQIResponse">>]

HTTPError(status) == [type |-> "HTTPError", msg |-> <<"Failed to fetch AQI Data: ">> \o status]

ZeroReading ==
    [k \in {"api", "temperature", "humidity", "wind_speed", "pm25", "pm10", "co"} |-> 0]

\* the exception the try block of fetch_aqi_data ends with, NoExc if none
FetchExc(o) ==
    IF o.kind = "raise" THEN o.exc
    ELSE IF ~Validates(o.resp) THEN ValidationError
    ELSE IF ~o.resp.success THEN HTTPError(o.resp.status)
    ELSE NoExc

\* the pair fetch_aqi_data returns once the extraction call has ended with o
fetch_result(u, o) ==
    IF FetchExc(o) = NoExc
    THEN <<o.resp.data, <<"Accessing URL: ">> \o u>>
    ELSE <<ZeroReading, <<"Error Fetching AQI Data: ">> \o FetchExc(o).msg>>

-----------------------------------------------------------------------------
(* HealthRecommendationAgent *)

UserInput(ci, st, co, mc, pa) ==
    [city |-> ci, state |-> st, country |-> co,
     medical_conditions |-> mc, planned_activity |-> pa]

PromptKeys == <<"aqi", "pm25", "pm10", "co", "temperature", "humidity", "co">>

_create_prompt(data, user_input) ==
    IF Lookup(data, PromptKeys) # NoExc
    THEN [exc |-> Lookup(data, PromptKeys), text |-> <<>>]
    ELSE [exc |-> NoExc,
          text |-> Concat(<<
            <<"Based on the following air quality condition in ">>,
            user_input.city, <<", ">>, user_input.state, <<", ">>,
            user_input.country, <<":">>,
            <<"- Overall AQI: ">>, Fmt(data["aqi"]),
            <<"- PM2.5 Level: ">>, Fmt(data["pm25"]), <<" ug/m3">>,
            <<"- PM10 Level: ">>, Fmt(data["pm10"]), <<" ug/m3">>,
            <<"- CO Level: ">>, Fmt(data["co"]), <<" ppb">>,
            <<"Weather Conditions:">>,
            <<"- Temperature: ">>, Fmt(data["temperature"]), <<"C">>,
            <<"- Humidity: ">>, Fmt(data["humidity"]), <<"%">>,
            <<"- Wind Speed: ">>, Fmt(data["co"]), <<" ppb">> >>)]

UnboundLocalError ==
    [type |-> "UnboundLocalError",
     msg |-> <<"cannot access local variable 'prompt' where it is not associated with a value">>]

LLMError == [type |-> "APIError", msg |-> <<"chat request failed">>]

LLMBehaviours == {"text", "error"}

\* what get_recommendation would do if its first line passed the reading and
\* the user input on to _create_prompt
get_recommendation_renders(data, user_input, l) ==
    LET p == _create_prompt(data, user_input)
    IN IF p.exc # NoExc THEN [exc |-> p.exc, content |-> <<>>, calls |-> 0]
       ELSE IF l = "error" THEN [exc |-> LLMError, content |-> <<>>, calls |-> 1]
       ELSE [exc |-> NoExc, content |-> <<"advice">>, calls |-> 1]

\* the argument of self._create_prompt(prompt) reads the local prompt before
\* it is bound: the call raises, agent.run is not reached
get_recommendation(data, user_input, l) ==
    [exc |-> UnboundLocalError, content |-> <<>>, calls |-> 0]

-----------------------------------------------------------------------------
(* analyze_conditions *)

SummaryKeys == <<"aqi", "pm25", "pm10", "co", "temperature", "humidity", "wind_speed">>

\* json.dumps of the display dict
Summary(data) ==
    Concat(<<
        <<"{">>,
        <<"Air Quality Index (AQI): ">>, Fmt(data["aqi"]),
        <<"PM2.5: ">>, Fmt(data["pm25"]), <<" ug/m3">>,
        <<"PM10: ">>, Fmt(data["pm10"]), <<" ug/m3">>,
        <<"Carbon Monoxide (CO): ">>, Fmt(data["co"]), <<" ppb">>,
        <<"Temperature">>, Fmt(data["temperature"]), <<"C">>,
        <<"Humidity">>, Fmt(data["humidity"]), <<"%">>,
        <<"Wind Speed">>, Fmt(data["wind_speed"]), <<" km/h">>,
        <<"}">> >>)

WarningMsg == <<"Note: The data shown may not match real-time values on the website.">>

\* an except clause that drops the exception's text
FailureTupleNoText(e) == << <<>>, <<"Analysis Failed">>, <<"Error Occured: ">>, <<>> >>

\* the except clause of analyze_conditions
FailureTuple(e) == << <<>>, <<"Analysis Failed">>, <<"Error Occured: ">> \o e.msg, <<>> >>

NoResult == <<>>

Init ==
    /\ pc = "idle"
    /\ city = <<>> /\ state = <<>> /\ country = <<>>
    /\ medical_condition = <<>> /\ planned_activity = <<>>
    /\ url = <<>> /\ outcome = NoOutcome /\ aqi_data = <<>> /\ info_msg = <<>>
    /\ aqi_json = <<>> /\ recArg = <<>> /\ exc = NoExc /\ result = NoResult
    /\ fetchCalls = 0 /\ extractCalls = 0 /\ llmCalls = 0 /\ llm = "none"
    /\ prompt = <<>>

\* the button handler is entered with the form's values
Analyze(ci, st, co, mc, pa) ==
    /\ pc = "idle"
    /\ pc' = "init"
    /\ city' = ci /\ state' = st /\ country' = co
    /\ medical_condition' = mc /\ planned_activity' = pa
    /\ UNCHANGED <<url, outcome, aqi_data, info_msg, aqi_json, recArg, exc, result,
                   fetchCalls, extractCalls, llmCalls, llm, prompt>>

\* AQIAnalyzer(...) and HealthRecommendationAgent(...): the client
\* constructors either return or raise (no API key)
Construct(ok) ==
    /\ pc = "init"
    /\ IF ok
       THEN /\ pc' = "fetch"
            /\ UNCHANGED <<exc, result>>
       ELSE /\ pc' = "done"
            /\ exc' = [type |-> "ValueError", msg |-> <<"No API key provided">>]
            /\ result' = FailureTuple(exc')
    /\ UNCHANGED <<city, state, country, medical_condition, planned_activity,
                   url, outcome, aqi_data, info_msg, aqi_json, recArg,
                   fetchCalls, extractCalls, llmCalls, llm, prompt>>

\* fetch_aqi_data up to and including the issue of firecrawl.extract
FetchCall ==
    /\ pc = "fetch"
    /\ pc' = "extract"
    /\ url' = _format_url(country, state, city)
    /\ fetchCalls' = fetchCalls + 1
    /\ extractCalls' = extractCalls + 1
    /\ UNCHANGED <<city, state, country, medical_condition, planned_activity,
                   outcome, aqi_data, info_msg, aqi_json, recArg, exc, result,
                   llmCalls, llm, prompt>>

\* a fetch_aqi_data that issues the extraction call again after a failure
ExtractReturnRetry(o) ==
    /\ pc = "extract"
    /\ IF FetchExc(o) # NoExc /\ extractCalls < 2
       THEN /\ extractCalls' = extractCalls + 1
            /\ UNCHANGED <<pc, outcome, aqi_data, info_msg>>
       ELSE /\ pc' = "format"
            /\ outcome' = o
            /\ aqi_data' = fetch_result(url, o)[1]
            /\ info_msg' = fetch_result(url, o)[2]
            /\ UNCHANGED extractCalls
    /\ UNCHANGED <<city, state, country, medical_condition, planned_activity,
                   url, aqi_json, recArg, exc, result,
                   fetchCalls, llmCalls, llm, prompt>>

\* firecrawl.extract ends with o; fetch_aqi_data returns to analyze_conditions
ExtractReturn(o) ==
    /\ pc = "extract"
    /\ pc' = "format"
    /\ outcome' = o
    /\ aqi_data' = fetch_result(url, o)[1]
    /\ info_msg' = fetch_result(url, o)[2]
    /\ UNCHANGED <<city, state, country, medical_condition, planned_activity,
                   url, aqi_json, recArg, exc, result,
                   fetchCalls, extractCalls, llmCalls, llm, prompt>>

\* the display dict is built and dumped
Format ==
    /\ pc = "format"
    /\ IF Lookup(aqi_data, SummaryKeys) = NoExc
       THEN /\ pc' = "recommend"
            /\ aqi_json' = Summary(aqi_data)
            /\ UNCHANGED <<exc, result>>
       ELSE /\ pc' = "done"
            /\ exc' = Lookup(aqi_data, SummaryKeys)
            /\ result' = FailureTuple(exc')
            /\ UNCHANGED aqi_json
    /\ UNCHANGED <<city, state, country, medical_condition, planned_activity,
                   url, outcome, aqi_data, info_msg, recArg,
                   fetchCalls, extractCalls, llmCalls, llm, prompt>>

\* an analyze_conditions that asks for the recommendation before the fetch
RecommendEarly(l) ==
    /\ pc \in {"fetch", "recommend"}
    /\ pc' = "done"
    /\ llm' = l
    /\ recArg' = aqi_data
    /\ LET r == get_recommendation(aqi_data,
                    UserInput(city, state, country, medical_condition, planned_activity), l)
       IN /\ llmCalls' = llmCalls + r.calls
          /\ exc' = r.exc
          /\ result' = IF r.exc = NoExc
                       THEN <<aqi_json, r.content, info_msg, WarningMsg>>
                       ELSE FailureTuple(r.exc)
    /\ UNCHANGED <<city, state, country, medical_condition, planned_activity,
                   url, outcome, aqi_data, info_msg, aqi_json,
                   fetchCalls, extractCalls, prompt>>

\* health_agent.get_recommendation(aqi_data, user_input) and the return;
\* l is what the chat endpoint would answer
Recommend(l) ==
    /\ pc = "recommend"
    /\ pc' = "done"
    /\ llm' = l
    /\ recArg' = aqi_data
    /\ LET r == get_recommendation(aqi_data,
                    UserInput(city, state, country, medical_condition, planned_activity), l)
       IN /\ llmCalls' = llmCalls + r.calls
          /\ exc' = r.exc
          /\ result' = IF r.exc = NoExc
                       THEN <<aqi_json, r.content, info_msg, WarningMsg>>
                       ELSE FailureTuple(r.exc)
    /\ UNCHANGED <<city, state, country, medical_condition, planned_activity,
                   url, outcome, aqi_data, info_msg, aqi_json,
                   fetchCalls, extractCalls, prompt>>

\* the four outputs are handed to the form; nothing of the call is kept
Return ==
    /\ pc = "done"
    /\ pc' = "idle"
    /\ city' = <<>> /\ state' = <<>> /\ country' = <<>>
    /\ medical_condition' = <<>> /\ planned_activity' = <<>>
    /\ url' = <<>> /\ outcome' = NoOutcome /\ aqi_data' = <<>> /\ info_msg' = <<>>
    /\ aqi_json' = <<>> /\ recArg' = <<>> /\ exc' = NoExc /\ result' = NoResult
    /\ fetchCalls' = 0 /\ extractCalls' = 0 /\ llmCalls' = 0 /\ llm' = "none"
    /\ UNCHANGED prompt

\* analyze_btn.click: the form is submitted with any values of its text boxes
Submit ==
    /\ pc = "idle"
    /\ \E ci \in Str, st \in Str, co \in Str, mc \in MedicalTexts, pa \in ActivityTexts :
          Analyze(ci, st, co, mc, pa)

Next ==
    \/ Submit
    \/ \E ok \in BOOLEAN : Construct(ok)
    \/ FetchCall
    \/ \E o \in Outcomes : ExtractReturn(o)
    \/ Format
    \/ \E l \in LLMBehaviours : Recommend(l)
    \/ Return

Spec == Init /\ [][Next]_vars

-----------------------------------------------------------------------------
(* _create_prompt applied on its own to a reading and a user input *)

PromptReadings == [ReadingKeys -> Vals] \cup {ZeroReading}

InitPrompt ==
    /\ pc = "prompt"
    /\ city \in Str /\ state \in Str /\ country \in Str
    /\ medical_condition \in MedicalTexts /\ planned_activity \in ActivityTexts
    /\ aqi_data \in PromptReadings
    /\ url = <<>> /\ outcome = NoOutcome /\ info_msg = <<>>
    /\ aqi_json = <<>> /\ recArg = <<>> /\ exc = NoExc /\ result = NoResult
    /\ fetchCalls = 0 /\ extractCalls = 0 /\ llmCalls = 0 /\ llm = "none"
    /\ prompt = <<>>

CreatePrompt ==
    /\ pc = "prompt"
    /\ pc' = "rendered"
    /\ LET r == _create_prompt(aqi_data,
                    UserInput(city, state, country, medical_condition, planned_activity))
       IN /\ prompt' = r.text
          /\ exc' = r.exc
    /\ UNCHANGED <<city, state, country, medical_condition, planned_activity,
                   url, outcome, aqi_data, info_msg, aqi_json, recArg, result,
                   fetchCalls, extractCalls, llmCalls, llm>>

NextPrompt == CreatePrompt

SpecPrompt == InitPrompt /\ [][NextPrompt]_vars

-----------------------------------------------------------------------------
(* Properties *)

IsBlank(s) == \A i \in 1..Len(s) : s[i] = " "

\* a path segment: lower-cased, spaces replaced by hyphens
Segment(s) == [i \in 1..Len(s) |-> IF s[i] = " " THEN "-" ELSE LowerChar(s[i])]

TwoSegment(co, ci) == Base \o <<"/">> \o Segment(co) \o <<"/">> \o Segment(ci)

ThreeSegment(co, st, ci) ==
    Base \o <<"/">> \o Segment(co) \o <<"/">> \o Segment(st) \o <<"/">> \o Segment(ci)

\* t occurs in s as a contiguous run of tokens
Contains(s, t) ==
    \E i \in 0..(Len(s) - Len(t)) : \A j \in 1..Len(t) : s[i + j] = t[j]

\* the token that follows the label lbl in the text s
ValueAfter(s, lbl) == LET i == CHOOSE n \in 1..(Len(s) - 1) : s[n] = lbl IN <<s[i + 1]>>

FetchReturned == pc \in {"format", "recommend"} \/ (pc = "done" /\ outcome.kind # "none")

ExtractionFailed == outcome.kind # "none" /\ FetchExc(outcome) # NoExc

ExtractionSucceededInFull ==
    /\ outcome.kind = "return"
    /\ FetchExc(outcome) = NoExc
    /\ ReadingKeys \subseteq DOMAIN outcome.resp.data

\* C1: once fetch_aqi_data has formatted the URL, it is the two-segment URL
\* base/country/city when the state is blank and the three-segment URL
\* base/country/state/city when it is not, each segment lower-cased with
\* hyphens for spaces.
C1_UrlBranchesOnState ==
    (pc = "extract") =>
        url = IF IsBlank(state) THEN TwoSegment(country, city)
              ELSE ThreeSegment(country, state, city)

\* C2: when the extraction step failed, fetch_aqi_data has returned a reading
\* holding each of aqi, temperature, humidity, wind_speed, pm25, pm10 and co
\* with value 0, and a non-empty message.
C2_FailedFetchIsZeroed ==
    (pc = "format" /\ ExtractionFailed) =>
        /\ \A k \in ReadingKeys : k \in DOMAIN aqi_data /\ aqi_data[k] = 0
        /\ info_msg # <<>>

\* C3: when a step of analyze_conditions raised, the call has returned the
\* tuple ("", "Analysis Failed", error text holding the exception's
\* description, "").
C3_FailureTupleOnException ==
    (pc = "done" /\ exc # NoExc) =>
        result = << <<>>, <<"Analysis Failed">>, <<"Error Occured: ">> \o exc.msg, <<>> >>

C3_Witness ==
    /\ pc = "done"
    /\ exc.type = "KeyError"
    /\ result[2] = <<"Analysis Failed">>
    /\ Contains(result[3], exc.msg)

\* C4: when the extraction returned a success envelope with all seven fields
\* and the chat endpoint answers with text, analyze_conditions returns a
\* non-empty summary, the recommendation text, "Accessing URL: <url>" and the
\* staleness note.
C4_SuccessTuple ==
    (pc = "done" /\ ExtractionSucceededInFull /\ llm = "text") =>
        /\ result[1] # <<>>
        /\ result[2] = <<"advice">>
        /\ result[3] = <<"Accessing URL: ">> \o url
        /\ result[4] = WarningMsg

\* C5: when fetch_aqi_data turned an extraction failure into a zeroed reading,
\* analyze_conditions has formatted the summary and handed that reading to
\* the recommendation step by the time it returns.
C5_ContinuesAfterFailedFetch ==
    (pc = "done" /\ ExtractionFailed) =>
        /\ aqi_json # <<>>
        /\ llm # "none"
        /\ recArg = aqi_data

\* C6: the prompt rendered for a reading and a user input contains the city,
\* the country, the aqi and pm25 values, the planned activity and the
\* medical condition.
C6_PromptContent ==
    (pc = "rendered" /\ exc = NoExc) =>
        /\ Contains(prompt, city)
        /\ Contains(prompt, country)
        /\ Contains(prompt, Fmt(aqi_data["aqi"]))
        /\ Contains(prompt, Fmt(aqi_data["pm25"]))
        /\ Contains(prompt, planned_activity)
        /\ Contains(prompt, medical_condition)

\* C7: the number of extraction calls issued equals the number of
\* fetch_aqi_data invocations, at every point of a run and whatever the
\* extraction call ended with: one call per invocation, none skipped, none
\* repeated.
C7_OneExtractionPerFetch ==
    /\ extractCalls = fetchCalls
    /\ FetchReturned => extractCalls = 1

C7_Witness ==
    /\ pc = "format"
    /\ ExtractionFailed
    /\ fetchCalls = 1
    /\ extractCalls = 1

\* C8: the recommendation step is entered, and any chat request issued, only
\* after the extraction call has returned, and the reading handed to the
\* recommendation step is the one fetch_aqi_data returned.
C8_ExtractionBeforeRecommendation ==
    (llm # "none" \/ llmCalls > 0) =>
        /\ outcome.kind # "none"
        /\ recArg = fetch_result(url, outcome)[1]

C8_Witness ==
    /\ pc = "done"
    /\ llm = "text"
    /\ ExtractionSucceededInFull
    /\ recArg = outcome.resp.data

\* C9: in the rendered prompt each of the seven labels is followed by the
\* value stored under its own key of the reading.
C9_FieldsFromOwnKey ==
    (pc = "rendered" /\ exc = NoExc) =>
        /\ ValueAfter(prompt, "- Overall AQI: ") = Fmt(aqi_data["aqi"])
        /\ ValueAfter(prompt, "- PM2.5 Level: ") = Fmt(aqi_data["pm25"])
        /\ ValueAfter(prompt, "- PM10 Level: ") = Fmt(aqi_data["pm10"])
        /\ ValueAfter(prompt, "- CO Level: ") = Fmt(aqi_data["co"])
        /\ ValueAfter(prompt, "- Temperature: ") = Fmt(aqi_data["temperature"])
        /\ ValueAfter(prompt, "- Humidity: ") = Fmt(aqi_data["humidity"])
        /\ ValueAfter(prompt, "- Wind Speed: ") = Fmt(aqi_data["wind_speed"])

\* C10: no run of analyze_conditions issues the chat request, and every run
\* returns with "Analysis Failed" in the recommendation slot.
C10_NeverReachesLLM ==
    /\ llmCalls = 0
    /\ (pc = "done") => result[2] = <<"Analysis Failed">>

C10_Witness ==
    /\ pc = "done"
    /\ ExtractionSucceededInFull
    /\ llm = "text"
    /\ exc.type = "UnboundLocalError"
    /\ result[2] = <<"Analysis Failed">>

====
